---- MODULE Spec2Model ----
(***************************************************************************)
(* Model of drivers/iio/adc/sun4i-gpadc-iio.c: the locked measurement      *)
(* handshake (sun4i_gpadc_read / sun4i_prepare_for_irq), the threaded      *)
(* interrupt handlers, the synchronous temperature path and the runtime-PM *)
(* suspend/resume register sequences, for each variant profile.            *)
(***************************************************************************)
EXTENDS Integers, Sequences, FiniteSets, TLC

\* ------------------------------------------------------------------ bounds
NumCallers == 2          \* concurrent caller threads
MaxReq     == 2          \* total number of read requests issued in a run
MaxChan    == 1          \* voltage channels 0..MaxChan are requested
MaxData    == 0          \* the data registers deliver values 0..MaxData
MaxDone    == 2          \* no further interrupt once completion.done is MaxDone
MaxReg     == 1          \* a register holds 0..MaxReg before the resume sequence runs
MaxCellLen == 9          \* the calibration cell holds 0..MaxCellLen bytes
MaxByte    == 1          \* each of them 0..MaxByte

Callers  == 1..NumCallers
Channels == 0..MaxChan
DataVals == 0..MaxData
RegVals  == 0..MaxReg
Bytes    == 0..MaxByte

\* ------------------------------------------------------ bit-level helpers
RECURSIVE And(_, _)
And(a, b) ==
    IF a = 0 \/ b = 0 THEN 0
    ELSE (a % 2) * (b % 2) + 2 * And(a \div 2, b \div 2)

RECURSIVE Or(_, _)
Or(a, b) ==
    IF a = 0 THEN b
    ELSE IF b = 0 THEN a
    ELSE (IF (a % 2) + (b % 2) > 0 THEN 1 ELSE 0) + 2 * Or(a \div 2, b \div 2)

BIT(n) == 2 ^ n

GENMASK(h, l) == 2 ^ (h + 1) - 2 ^ l

\* -------------------------------------- register bits (linux/iio/adc/sun4i-gpadc.h)
SUN4I_GPADC_CTRL0_ADC_CLK_DIVIDER(x) == And(GENMASK(1, 0), x) * BIT(20)

SUN4I_GPADC_CTRL0_FS_DIV(x) == And(GENMASK(3, 0), x) * BIT(16)

SUN4I_GPADC_CTRL0_T_ACQ(x) == And(GENMASK(15, 0), x)

SUN4I_GPADC_CTRL1_TP_MODE_EN == BIT(4)

SUN4I_GPADC_CTRL1_TP_ADC_SELECT == BIT(3)

SUN4I_GPADC_CTRL1_ADC_CHAN_SELECT(x) == And(GENMASK(2, 0), x)

SUN4I_GPADC_CTRL1_ADC_CHAN_MASK == GENMASK(2, 0)

SUN6I_GPADC_CTRL1_TP_MODE_EN == BIT(5)

SUN6I_GPADC_CTRL1_TP_ADC_SELECT == BIT(4)

SUN6I_GPADC_CTRL1_ADC_CHAN_SELECT(x) == And(GENMASK(3, 0), BIT(x))

SUN6I_GPADC_CTRL1_ADC_CHAN_MASK == GENMASK(3, 0)

SUN8I_A33_GPADC_CTRL1_CHOP_TEMP_EN == BIT(8)

SUN4I_GPADC_CTRL3_FILTER_EN == BIT(2)

SUN4I_GPADC_CTRL3_FILTER_TYPE(x) == And(GENMASK(1, 0), x)

SUN4I_GPADC_INT_FIFOC_TEMP_IRQ_EN == BIT(18)

SUN4I_GPADC_INT_FIFOC_TP_DATA_IRQ_EN == BIT(16)

SUN4I_GPADC_INT_FIFOC_TP_FIFO_TRIG_LEVEL(x) == And(GENMASK(4, 0), x) * BIT(8)

SUN4I_GPADC_INT_FIFOC_TP_FIFO_FLUSH == BIT(4)

SUN4I_GPADC_TPR_TEMP_ENABLE == BIT(16)

SUN4I_GPADC_TPR_TEMP_PERIOD(x) == And(GENMASK(15, 0), x)

SUN8I_H3_THS_ACQ1(x) == x * BIT(16)

SUN8I_H3_THS_INTS_TDATA_IRQ_0 == BIT(8)

SUN8I_H3_THS_INTC_TDATA_IRQ_EN0 == BIT(8)

SUN8I_H3_THS_TEMP_PERIOD(x) == x * BIT(12)

SUN8I_H3_THS_TEMP_SENSE_EN0 == BIT(0)

\* the two values of irq_data_type
SUN4I_GPADC_IRQ_FIFO_DATA == "FIFO_DATA"

SUN4I_GPADC_IRQ_TEMP_DATA == "TEMP_DATA"

\* the registers the driver writes or reads back, by name
Registers ==
    {"CTRL0", "CTRL1", "CTRL3", "INT_FIFOC", "TPR",
     "H3_CTRL0", "H3_CTRL2", "H3_INTC", "H3_STAT", "H3_FILTER"}

\* ------------------------------------------------------- variant profiles
sun4i_gpadc_chan_select(chan) == SUN4I_GPADC_CTRL1_ADC_CHAN_SELECT(chan)

sun6i_gpadc_chan_select(chan) == SUN6I_GPADC_CTRL1_ADC_CHAN_SELECT(chan)

sun4i_gpadc_data ==
    [temp_offset |-> -1932, temp_scale |-> 133,
     tp_mode_en |-> SUN4I_GPADC_CTRL1_TP_MODE_EN,
     tp_adc_select |-> SUN4I_GPADC_CTRL1_TP_ADC_SELECT,
     adc_chan_select |-> "sun4i_gpadc_chan_select",
     adc_chan_mask |-> SUN4I_GPADC_CTRL1_ADC_CHAN_MASK,
     adc_channel |-> TRUE,
     ths_irq_thread |-> "sun4i_gpadc_data_irq_handler",
     support_irq |-> TRUE,
     temp_data_base |-> "TEMP_DATA",
     ths |-> "sun4i", sensor_count |-> 1, supports_nvmem |-> FALSE,
     ths_irq_clear |-> 0]

sun5i_gpadc_data ==
    [sun4i_gpadc_data EXCEPT !.temp_offset = -1447, !.temp_scale = 100]

sun6i_gpadc_data ==
    [temp_offset |-> -1623, temp_scale |-> 167,
     tp_mode_en |-> SUN6I_GPADC_CTRL1_TP_MODE_EN,
     tp_adc_select |-> SUN6I_GPADC_CTRL1_TP_ADC_SELECT,
     adc_chan_select |-> "sun6i_gpadc_chan_select",
     adc_chan_mask |-> SUN6I_GPADC_CTRL1_ADC_CHAN_MASK,
     adc_channel |-> TRUE,
     ths_irq_thread |-> "sun4i_gpadc_data_irq_handler",
     support_irq |-> TRUE,
     temp_data_base |-> "TEMP_DATA",
     ths |-> "sun4i", sensor_count |-> 1, supports_nvmem |-> FALSE,
     ths_irq_clear |-> 0]

sun8i_a33_gpadc_data ==
    [temp_offset |-> -1662, temp_scale |-> 162,
     tp_mode_en |-> SUN8I_A33_GPADC_CTRL1_CHOP_TEMP_EN,
     tp_adc_select |-> 0,
     adc_chan_select |-> "NULL",
     adc_chan_mask |-> 0,
     adc_channel |-> FALSE,
     ths_irq_thread |-> "NULL",
     support_irq |-> FALSE,
     temp_data_base |-> "TEMP_DATA",
     ths |-> "sun4i", sensor_count |-> 1, supports_nvmem |-> FALSE,
     ths_irq_clear |-> 0]

sun8i_h3_ths_data ==
    [temp_offset |-> -1791, temp_scale |-> -121,
     tp_mode_en |-> 0,
     tp_adc_select |-> 0,
     adc_chan_select |-> "NULL",
     adc_chan_mask |-> 0,
     adc_channel |-> FALSE,
     ths_irq_thread |-> "sunx8i_h3_irq_thread",
     support_irq |-> TRUE,
     temp_data_base |-> "H3_TDATA0",
     ths |-> "h3", sensor_count |-> 1, supports_nvmem |-> TRUE,
     ths_irq_clear |-> SUN8I_H3_THS_INTS_TDATA_IRQ_0]

\* the match table: compatible string -> profile
sun4i_gpadc_of_id ==
    [c \in {"allwinner,sun8i-a33-ths", "allwinner,sun4i-a10-gpadc",
            "allwinner,sun5i-a13-gpadc", "allwinner,sun6i-a31-gpadc",
            "allwinner,sun8i-h3-ths"} |->
        CASE c = "allwinner,sun8i-a33-ths"   -> sun8i_a33_gpadc_data
          [] c = "allwinner,sun4i-a10-gpadc" -> sun4i_gpadc_data
          [] c = "allwinner,sun5i-a13-gpadc" -> sun5i_gpadc_data
          [] c = "allwinner,sun6i-a31-gpadc" -> sun6i_gpadc_data
          [] c = "allwinner,sun8i-h3-ths"    -> sun8i_h3_ths_data]

\* the bound devices explored (sun5i differs from sun4i in the temperature
\* constants only)
Compatibles ==
    {"allwinner,sun8i-a33-ths", "allwinner,sun4i-a10-gpadc",
     "allwinner,sun6i-a31-gpadc", "allwinner,sun8i-h3-ths"}

adc_chan_select(d, chan) ==
    IF d.adc_chan_select = "sun4i_gpadc_chan_select"
    THEN sun4i_gpadc_chan_select(chan)
    ELSE sun6i_gpadc_chan_select(chan)

\* ------------------------------------------------------------------ state
VARIABLES
    compatible,     \* the identity string the device was bound with
    pc,             \* pc[p]: where caller p stands in its call
    loc,            \* loc[p]: the call's arguments, locals and results
    mutex,          \* info->mutex: 0 when free, else its holder
    irq_data_type,  \* info->irq_data_type
    regs,           \* the register file behind info->regmap
    done,           \* info->completion.done
    adc_data,       \* info->adc_data
    temp_data,      \* info->temp_data
    irqDepth,       \* disable depth of info->irq (0: the handler may run)
    hpc,            \* where the threaded interrupt handler stands
    usage,          \* runtime-PM usage count of the device
    rpm,            \* runtime-PM status: "suspended" or "active"
    nreq,           \* requests issued so far
    nlock,          \* requests that have taken the mutex so far
    wseq,           \* log of the register writes of the sun4i_gpadc_read
                    \* requests: the issuing request of each write, runs of
                    \* one issuer collapsed
    prev,           \* the request that held the mutex last: its type, its
                    \* channel, whether its CTRL1 write succeeded
    sig,            \* complete() was called since the holder's enable_irq
    stored,         \* stored[slot]: the handler wrote adc_data / temp_data
                    \* during the request that holds the mutex now
    cell,           \* the "calibration" nvmem cell the platform offers
    calibration_data, \* info->calibration_data[0..1]
    probe_ret       \* what sun4i_gpadc_probe made of the device

bindVars == <<cell, calibration_data, probe_ret>>

vars ==
    <<bindVars, stored, compatible, pc, loc, mutex, irq_data_type, regs, done, adc_data,
      temp_data, irqDepth, hpc, usage, rpm, nreq, nlock, wseq, prev, sig>>

data == sun4i_gpadc_of_id[compatible]

NoVal == -1

IdleLoc ==
    [irq |-> "none", channel |-> 0, sensor |-> 0, reg |-> 0, ret |-> "none",
     val |-> NoVal, d10 |-> FALSE, d100 |-> FALSE, w1 |-> FALSE, rid |-> 0,
     resumed |-> FALSE, tw |-> FALSE, temp |-> 0, from |-> "none",
     addr |-> [base |-> "none", off |-> 0]]

NoneStored == [slot \in {"adc_data", "temp_data"} |-> FALSE]

NoPrev == [irq |-> "none", channel |-> 0, wrote |-> FALSE]

LogW(w, id) ==
    IF Len(w) > 0 /\ w[Len(w)] = id THEN w ELSE Append(w, id)

\* ------------------------------------------------- suspend / resume hooks
sun4i_ths_suspend(r) ==
    [r EXCEPT !["CTRL1"] = 0, !["TPR"] = 0, !["INT_FIFOC"] = 0]

sun8i_h3_ths_suspend(r) ==
    [r EXCEPT !["H3_INTC"] = 0, !["H3_CTRL2"] = 0]

sun4i_ths_resume(d, r) ==
    [r EXCEPT
        !["CTRL0"] = Or(Or(SUN4I_GPADC_CTRL0_ADC_CLK_DIVIDER(2),
                           SUN4I_GPADC_CTRL0_FS_DIV(7)),
                        SUN4I_GPADC_CTRL0_T_ACQ(63)),
        !["CTRL1"] = d.tp_mode_en,
        !["CTRL3"] = Or(SUN4I_GPADC_CTRL3_FILTER_EN,
                        SUN4I_GPADC_CTRL3_FILTER_TYPE(1)),
        !["TPR"]   = Or(SUN4I_GPADC_TPR_TEMP_ENABLE,
                        SUN4I_GPADC_TPR_TEMP_PERIOD(800))]

\* (faulty variant) a resume sequence that adds to THS_CTRL2 instead of setting it
sun8i_h3_ths_resume_adding(r) ==
    [r EXCEPT !["H3_CTRL2"] = r["H3_CTRL2"] + SUN8I_H3_THS_TEMP_SENSE_EN0]

sun8i_h3_calibrate(r) == r

sun8i_h3_ths_resume(r) ==
    LET r0 == sun8i_h3_calibrate(r)
        r1 == [r0 EXCEPT !["H3_CTRL0"] = SUN4I_GPADC_CTRL0_T_ACQ(255)]
        r2 == [r1 EXCEPT !["H3_CTRL2"] = SUN8I_H3_THS_ACQ1(63)]
        r3 == [r2 EXCEPT !["H3_STAT"] = SUN8I_H3_THS_INTS_TDATA_IRQ_0]
        r4 == [r3 EXCEPT !["H3_FILTER"] =
                  Or(SUN4I_GPADC_CTRL3_FILTER_EN,
                     SUN4I_GPADC_CTRL3_FILTER_TYPE(2))]
        r5 == [r4 EXCEPT !["H3_INTC"] =
                  Or(SUN8I_H3_THS_INTC_TDATA_IRQ_EN0,
                     SUN8I_H3_THS_TEMP_PERIOD(85))]
        value == r5["H3_CTRL2"]
    IN  [r5 EXCEPT !["H3_CTRL2"] = Or(SUN8I_H3_THS_TEMP_SENSE_EN0, value)]

sun4i_gpadc_runtime_suspend(d, r) ==
    IF d.ths = "h3" THEN sun8i_h3_ths_suspend(r) ELSE sun4i_ths_suspend(r)

sun4i_gpadc_runtime_resume(d, r) ==
    IF d.ths = "h3" THEN sun8i_h3_ths_resume(r) ELSE sun4i_ths_resume(d, r)

\* faulty variant: a probe that leaves the requested interrupt enabled on
\* every variant
ProbeIrqEnabled(d) == 0

\* ---------------------------------------------------------------- probe
\* sun4i_gpadc_probe / sun4i_gpadc_probe_dt: the device is bound, registers
\* at their reset value, runtime-PM status suspended; the interrupt line is
\* requested (enabled) and, when the variant has a voltage channel, disabled.
ProbeIrqDepth(d) == IF d.support_irq /\ d.adc_channel THEN 1 ELSE 0

Init ==
    /\ compatible \in Compatibles
    /\ pc = [p \in Callers |-> "idle"]
    /\ loc = [p \in Callers |-> IdleLoc]
    /\ mutex = 0
    /\ irq_data_type = SUN4I_GPADC_IRQ_FIFO_DATA
    /\ regs = [r \in Registers |-> 0]
    /\ done = 0
    /\ adc_data = 0
    /\ temp_data = 0
    /\ irqDepth = ProbeIrqDepth(sun4i_gpadc_of_id[compatible])
    /\ hpc = "idle"
    /\ usage = 0
    /\ rpm = "suspended"
    /\ nreq = 0
    /\ nlock = 0
    /\ wseq = << >>
    /\ prev = NoPrev
    /\ sig = FALSE
    /\ stored = NoneStored
    /\ cell = [kind |-> "error", bytes |-> << >>]
    /\ calibration_data = <<0, 0>>
    /\ probe_ret = "bound"

\* ------------------------------------------------- faulty variants
\* Deliberately broken versions of the helpers below: each claim's property
\* must fail when the helper it rests on is replaced by its faulty variant.

\* a mutex_lock() that never blocks
mutex_never_blocks == TRUE

\* a reinit_completion() that leaves a pending signal in place
reinit_completion_skipped(x) == x

\* a pm_runtime_put_autosuspend() that keeps the usage count
rpm_put_skipped(u) == u

\* a disable_irq() that leaves the line enabled
disable_irq_skipped(depth) == depth

\* a channel comparison that forgets the channel mask
ChannelSettleUnmasked(d, reg, channel) == reg # adc_chan_select(d, channel)

\* a length test that accepts every blob of at least 8 bytes
cell_size_at_least(n) == n >= 8

\* a synchronous read that always takes the sun4i temperature register
temp_data_reg_sun4i(d, sensor) == [base |-> "TEMP_DATA", off |-> 0]

\* a handler that fills the slot of the other type
SlotForOther(type) ==
    IF type = SUN4I_GPADC_IRQ_FIFO_DATA THEN "temp_data" ELSE "adc_data"

\* -------------------------------------------------------------- helpers
SetLoc(p, r) == [loc EXCEPT ![p] = r]

Goto(p, l) == [pc EXCEPT ![p] = l]

\* mutex_lock() returns only when the mutex is free
mutex_available == mutex = 0

\* reinit_completion(): done = 0
reinit_completion(x) == 0

\* pm_runtime_get_sync(): one more user; a suspended device is resumed first
rpm_get_usage(u) == u + 1

\* pm_runtime_put_autosuspend(): one user less
rpm_put_usage(u) == u - 1

\* enable_irq(): one disable level less (an already enabled line stays so)
enable_irq(depth) == IF depth > 0 THEN depth - 1 ELSE 0

\* disable_irq(): one disable level more
disable_irq(depth) == depth + 1

\* the value sun4i_gpadc_irq_init() writes to INT_FIFOC
sun4i_gpadc_irq_init(type) ==
    IF type = SUN4I_GPADC_IRQ_FIFO_DATA
    THEN SUN4I_GPADC_INT_FIFOC_TEMP_IRQ_EN
    ELSE SUN4I_GPADC_INT_FIFOC_TEMP_IRQ_EN

\* sun4i_prepare_for_irq(): the channel changed, mdelay(10)
ChannelSettle(d, reg, channel) ==
    And(reg, d.adc_chan_mask) # adc_chan_select(d, channel)

\* sun4i_prepare_for_irq(): the mode changed, mdelay(100)
ModeSettle(d, reg) == And(reg, d.tp_adc_select) # d.tp_adc_select

\* sun4i_gpadc_get_temp() after sun4i_gpadc_temp_read() returned ret with
\* val in its local: -ETIMEDOUT on any error, else *temp is written (tw)
sun4i_gpadc_get_temp(d, ret, val) ==
    IF ret # "OK"
    THEN [ret |-> "ETIMEDOUT", tw |-> FALSE, temp |-> 0]
    ELSE [ret |-> "OK", tw |-> TRUE,
          temp |-> (val + d.temp_offset) * d.temp_scale]

\* sun4i_gpadc_probe_dt(): the length test on the calibration blob
cell_size_ok(n) == n = 8

\* sun4i_gpadc_temp_read(): the register of the synchronous read,
\* info->data->temp_data_base + 0x4 * sensor, as base and byte offset
temp_data_reg(d, sensor) == [base |-> d.temp_data_base, off |-> 4 * sensor]

\* cell_data[i] of the u32 view of the blob (little-endian), i from 0
cell_data(bytes, i) ==
    bytes[4 * i + 1] + 256 * bytes[4 * i + 2] + 65536 * bytes[4 * i + 3]
        + 16777216 * bytes[4 * i + 4]

\* sun4i_gpadc_data_irq_handler(): the slot filled for the pending type
SlotFor(type) ==
    IF type = SUN4I_GPADC_IRQ_FIFO_DATA THEN "adc_data" ELSE "temp_data"

\* sun4i_gpadc_read(): the slot read for the request's type
ReadSlot(irq) ==
    IF irq = SUN4I_GPADC_IRQ_FIFO_DATA THEN "adc_data" ELSE "temp_data"

\* the value the voltage branch writes to CTRL1
Ctrl1Voltage(d, channel) ==
    Or(Or(d.tp_mode_en, d.tp_adc_select), adc_chan_select(d, channel))

\* ---------------------------------------------- callers: sun4i_gpadc_read
\* Caller threads are interchangeable: of the idle ones the lowest-numbered
\* issues the next request.
NextCaller(p) == pc[p] = "idle" /\ \A q \in Callers : q < p => pc[q] # "idle"

\* sun4i_gpadc_read_raw(IIO_CHAN_INFO_RAW, IIO_VOLTAGE) -> sun4i_gpadc_adc_read
\* -> sun4i_gpadc_read.  Nothing reads the call's channel argument before the
\* mutex is taken: the channel is drawn in Lock.
StartVoltage(p) ==
    /\ NextCaller(p)
    /\ nreq < MaxReq
    /\ nreq' = nreq + 1
    /\ loc' = SetLoc(p, [IdleLoc EXCEPT !.irq = SUN4I_GPADC_IRQ_FIFO_DATA])
    /\ pc' = Goto(p, "lock")
    /\ UNCHANGED <<bindVars, stored, compatible, nlock, mutex, irq_data_type, regs, done, adc_data,
                   temp_data, irqDepth, hpc, usage, rpm, wseq, prev, sig>>

\* sun4i_gpadc_temp_read(): the handshake with channel 0 when the variant has
\* a voltage channel, else the synchronous read
StartTemp(p, sensor) ==
    /\ NextCaller(p)
    /\ nreq < MaxReq
    /\ nreq' = nreq + 1
    /\ loc' = SetLoc(p, [IdleLoc EXCEPT !.irq = SUN4I_GPADC_IRQ_TEMP_DATA,
                                        !.channel = 0, !.sensor = sensor])
    /\ pc' = Goto(p, IF data.adc_channel THEN "lock" ELSE "s_get")
    /\ UNCHANGED <<bindVars, stored, compatible, nlock, mutex, irq_data_type, regs, done, adc_data,
                   temp_data, irqDepth, hpc, usage, rpm, wseq, prev, sig>>

\* mutex_lock(&info->mutex); info->irq_data_type = irq; then, in
\* sun4i_prepare_for_irq(): pm_runtime_get_sync() (a suspended device is
\* resumed) and reinit_completion()
Lock(p, ch) ==
    /\ pc[p] = "lock"
    /\ mutex_available
    /\ loc[p].irq = SUN4I_GPADC_IRQ_TEMP_DATA => ch = 0
    /\ mutex' = p
    /\ nlock' = nlock + 1
    /\ loc' = SetLoc(p, [loc[p] EXCEPT !.channel = ch, !.rid = nlock + 1,
                                       !.resumed = (rpm = "suspended")])
    /\ irq_data_type' = loc[p].irq
    /\ usage' = rpm_get_usage(usage)
    /\ rpm' = "active"
    /\ IF rpm = "suspended"
       THEN /\ regs' = sun4i_gpadc_runtime_resume(data, regs)
            /\ wseq' = LogW(wseq, nlock + 1)
       ELSE UNCHANGED <<regs, wseq>>
    /\ done' = reinit_completion(done)
    /\ pc' = Goto(p, "wr_fifoc")
    /\ UNCHANGED <<bindVars, stored, compatible, adc_data, temp_data, irqDepth, hpc, nreq,
                   prev, sig>>

\* regmap_write(INT_FIFOC, TRIG_LEVEL(1) | FLUSH); if (ret) return ret
WrFifoc(p, ok) ==
    /\ pc[p] = "wr_fifoc"
    /\ wseq' = LogW(wseq, loc[p].rid)
    /\ IF ok
       THEN /\ regs' = [regs EXCEPT !["INT_FIFOC"] =
                           Or(SUN4I_GPADC_INT_FIFOC_TP_FIFO_TRIG_LEVEL(1),
                              SUN4I_GPADC_INT_FIFOC_TP_FIFO_FLUSH)]
            /\ pc' = Goto(p, "rd_ctrl1")
            /\ UNCHANGED loc
       ELSE /\ loc' = SetLoc(p, [loc[p] EXCEPT !.ret = "EIO"])
            /\ pc' = Goto(p, "put")
            /\ UNCHANGED regs
    /\ UNCHANGED <<bindVars, stored, compatible, mutex, irq_data_type, done, adc_data, temp_data,
                   irqDepth, hpc, usage, rpm, nreq, nlock, prev, sig>>

\* regmap_read(CTRL1, &reg); if (ret) return ret
RdCtrl1(p, ok) ==
    /\ pc[p] = "rd_ctrl1"
    /\ IF ok
       THEN /\ loc' = SetLoc(p, [loc[p] EXCEPT !.reg = regs["CTRL1"]])
            /\ pc' = Goto(p, "wr_ctrl1")
       ELSE /\ loc' = SetLoc(p, [loc[p] EXCEPT !.ret = "EIO"])
            /\ pc' = Goto(p, "put")
    /\ UNCHANGED <<bindVars, stored, compatible, mutex, irq_data_type, regs, done, adc_data,
                   temp_data, irqDepth, hpc, usage, rpm, nreq, nlock, wseq, prev, sig>>

\* the voltage branch on a variant whose adc_chan_select is NULL: the call
\* through the null pointer faults and the thread dies holding the mutex
WrCtrl1Null(p) ==
    /\ pc[p] = "wr_ctrl1"
    /\ loc[p].irq = SUN4I_GPADC_IRQ_FIFO_DATA
    /\ data.adc_chan_select = "NULL"
    /\ pc' = Goto(p, "oops")
    /\ UNCHANGED <<bindVars, stored, compatible, loc, mutex, irq_data_type, regs, done, adc_data,
                   temp_data, irqDepth, hpc, usage, rpm, nreq, nlock, wseq, prev, sig>>

\* the CTRL1 mode/channel write of either branch, and mdelay(10) when the
\* latched channel differs (voltage branch)
WrCtrl1(p, ok) ==
    /\ pc[p] = "wr_ctrl1"
    /\ ~(loc[p].irq = SUN4I_GPADC_IRQ_FIFO_DATA /\ data.adc_chan_select = "NULL")
    /\ wseq' = LogW(wseq, loc[p].rid)
    /\ LET v == IF loc[p].irq = SUN4I_GPADC_IRQ_FIFO_DATA
                THEN Ctrl1Voltage(data, loc[p].channel)
                ELSE data.tp_mode_en
       IN  regs' = IF ok THEN [regs EXCEPT !["CTRL1"] = v] ELSE regs
    /\ loc' = SetLoc(p, [loc[p] EXCEPT
                  !.ret = IF ok THEN "OK" ELSE "EIO",
                  !.w1 = ok,
                  !.d10 = /\ loc[p].irq = SUN4I_GPADC_IRQ_FIFO_DATA
                          /\ ChannelSettle(data, loc[p].reg, loc[p].channel)])
    /\ pc' = Goto(p, "irq_init")
    /\ UNCHANGED <<bindVars, stored, compatible, mutex, irq_data_type, done, adc_data, temp_data,
                   irqDepth, hpc, usage, rpm, nreq, nlock, prev, sig>>

\* if (support_irq) sun4i_gpadc_irq_init(); if (ret) return ret;
\* mdelay(100) when the latched mode differs
IrqInit(p, ok) ==
    /\ pc[p] = "irq_init"
    /\ IF data.support_irq
       THEN /\ wseq' = LogW(wseq, loc[p].rid)
            /\ regs' = IF ok
                       THEN [regs EXCEPT !["INT_FIFOC"] =
                                sun4i_gpadc_irq_init(irq_data_type)]
                       ELSE regs
       ELSE UNCHANGED <<wseq, regs>>
    /\ IF loc[p].ret # "OK"
       THEN /\ pc' = Goto(p, "put")
            /\ UNCHANGED loc
       ELSE /\ loc' = SetLoc(p, [loc[p] EXCEPT
                         !.d100 = ModeSettle(data, loc[p].reg)])
            /\ pc' = Goto(p, "enable")
    /\ UNCHANGED <<bindVars, stored, compatible, mutex, irq_data_type, done, adc_data, temp_data,
                   irqDepth, hpc, usage, rpm, nreq, nlock, prev, sig>>

\* enable_irq(info->irq); info->irq is the device's line only when the
\* variant has support_irq (sun4i_gpadc_probe_dt)
EnableIrq(p) ==
    /\ pc[p] = "enable"
    /\ irqDepth' = IF data.support_irq THEN enable_irq(irqDepth) ELSE irqDepth
    /\ sig' = FALSE
    /\ pc' = Goto(p, "wait")
    /\ UNCHANGED <<bindVars, stored, compatible, loc, mutex, irq_data_type, regs, done, adc_data,
                   temp_data, hpc, usage, rpm, nreq, nlock, wseq, prev>>

\* wait_for_completion_timeout() returns nonzero: a signal was consumed
WaitDone(p) ==
    /\ pc[p] = "wait"
    /\ done > 0
    /\ done' = done - 1
    /\ pc' = Goto(p, "rd_val")
    /\ UNCHANGED <<bindVars, stored, compatible, loc, mutex, irq_data_type, regs, adc_data,
                   temp_data, irqDepth, hpc, usage, rpm, nreq, nlock, wseq, prev, sig>>

\* wait_for_completion_timeout() returns 0 after 1000 ms: ret = -ETIMEDOUT
WaitTimeout(p) ==
    /\ pc[p] = "wait"
    /\ done = 0
    /\ loc' = SetLoc(p, [loc[p] EXCEPT !.ret = "ETIMEDOUT"])
    /\ pc' = Goto(p, "put")
    /\ UNCHANGED <<bindVars, stored, compatible, mutex, irq_data_type, regs, done, adc_data,
                   temp_data, irqDepth, hpc, usage, rpm, nreq, nlock, wseq, prev, sig>>

\* *val = info->adc_data or info->temp_data; ret = 0
RdVal(p) ==
    /\ pc[p] = "rd_val"
    /\ loc' = SetLoc(p, [loc[p] EXCEPT
                  !.val = IF ReadSlot(loc[p].irq) = "adc_data"
                          THEN adc_data ELSE temp_data,
                  !.from = ReadSlot(loc[p].irq),
                  !.ret = "OK"])
    /\ pc' = Goto(p, "put")
    /\ UNCHANGED <<bindVars, stored, compatible, mutex, irq_data_type, regs, done, adc_data,
                   temp_data, irqDepth, hpc, usage, rpm, nreq, nlock, wseq, prev, sig>>

\* err: pm_runtime_put_autosuspend()
Put(p) ==
    /\ pc[p] = "put"
    /\ usage' = rpm_put_usage(usage)
    /\ pc' = Goto(p, "disable")
    /\ UNCHANGED <<bindVars, stored, compatible, loc, mutex, irq_data_type, regs, done, adc_data,
                   temp_data, irqDepth, hpc, rpm, nreq, nlock, wseq, prev, sig>>

\* disable_irq(info->irq): the line is masked ...
DisableIrq(p) ==
    /\ pc[p] = "disable"
    /\ irqDepth' = IF data.support_irq THEN disable_irq(irqDepth) ELSE irqDepth
    /\ pc' = Goto(p, "unlock")
    /\ UNCHANGED <<bindVars, stored, compatible, loc, mutex, irq_data_type, regs, done, adc_data,
                   temp_data, hpc, usage, rpm, nreq, nlock, wseq, prev, sig>>

\* the return of sun4i_gpadc_temp_read() to its caller: sun4i_gpadc_read_raw
\* hands ret and val on; sun4i_gpadc_get_temp (tz, the thermal zone of sensor
\* 0) computes the temperature from its local val, which holds garbage g
\* when the read left it unwritten.  Nothing in the request depends on which
\* of the two called, so the caller is drawn here.
ReturnTo(p, tz, g) ==
    IF tz /\ loc[p].irq = SUN4I_GPADC_IRQ_TEMP_DATA
    THEN LET raw == IF loc[p].val = NoVal THEN g ELSE loc[p].val
             r   == sun4i_gpadc_get_temp(data, loc[p].ret, raw)
         IN  /\ loc' = SetLoc(p, [IdleLoc EXCEPT
                               !.irq = loc[p].irq, !.val = raw,
                               !.w1 = loc[p].w1, !.ret = r.ret, !.tw = r.tw,
                               !.temp = r.temp])
             /\ pc' = Goto(p, "tz_ret")
    ELSE /\ loc' = SetLoc(p, IdleLoc)
         /\ pc' = Goto(p, "idle")

\* ... and disable_irq() returns once a running handler has finished;
\* mutex_unlock(&info->mutex); return ret
\* (loc[p].ret and loc[p].val are what the caller receives)
Unlock(p, tz, g) ==
    /\ pc[p] = "unlock"
    /\ hpc = "idle"
    /\ mutex' = 0
    /\ prev' = [irq |-> loc[p].irq, channel |-> loc[p].channel,
                wrote |-> loc[p].w1]
    /\ sig' = FALSE
    /\ stored' = NoneStored
    /\ ReturnTo(p, tz, g)
    /\ UNCHANGED <<bindVars, compatible, irq_data_type, regs, done, adc_data,
                   temp_data, irqDepth, hpc, usage, rpm, nreq, nlock, wseq>>

\* ------------------------- sun4i_gpadc_temp_read: the synchronous path
\* pm_runtime_get_sync()
SGet(p) ==
    /\ pc[p] = "s_get"
    /\ usage' = rpm_get_usage(usage)
    /\ rpm' = "active"
    /\ IF rpm = "suspended"
       THEN regs' = sun4i_gpadc_runtime_resume(data, regs)
       ELSE UNCHANGED regs
    /\ pc' = Goto(p, "s_read")
    /\ UNCHANGED <<bindVars, stored, compatible, loc, mutex, irq_data_type, done, adc_data,
                   temp_data, irqDepth, hpc, nreq, nlock, wseq, prev, sig>>

\* regmap_read(temp_data_base + 0x4 * sensor, val), its result ignored
SRead(p, ok, v) ==
    /\ pc[p] = "s_read"
    /\ loc' = SetLoc(p, [loc[p] EXCEPT
                  !.val = IF ok THEN v ELSE @,
                  !.addr = temp_data_reg(data, loc[p].sensor),
                  !.w1 = ok,
                  !.ret = "OK"])
    /\ pc' = Goto(p, "s_put")
    /\ UNCHANGED <<bindVars, stored, compatible, mutex, irq_data_type, regs, done, adc_data,
                   temp_data, irqDepth, hpc, usage, rpm, nreq, nlock, wseq, prev, sig>>

\* pm_runtime_mark_last_busy(); pm_runtime_put_autosuspend(); return 0
\* (loc[p].ret and loc[p].val are what the caller receives)
SPut(p, tz, g) ==
    /\ pc[p] = "s_put"
    /\ usage' = rpm_put_usage(usage)
    /\ ReturnTo(p, tz, g)
    /\ UNCHANGED <<bindVars, stored, compatible, mutex, irq_data_type, regs, done, adc_data,
                   temp_data, irqDepth, hpc, rpm, nreq, nlock, wseq, prev, sig>>

\* sun4i_gpadc_get_temp() returns to the thermal core
\* (loc[p].ret and, when loc[p].tw, loc[p].temp are what it receives)
TzReturn(p) ==
    /\ pc[p] = "tz_ret"
    /\ loc' = SetLoc(p, IdleLoc)
    /\ pc' = Goto(p, "idle")
    /\ UNCHANGED <<bindVars, stored, compatible, mutex, irq_data_type, regs, done, adc_data,
                   temp_data, irqDepth, hpc, usage, rpm, nreq, nlock, wseq,
                   prev, sig>>

\* ------------------------------------------------- the interrupt thread
\* the line is enabled and the hardware raises it: the threaded handler of
\* the variant starts
IrqFire ==
    /\ data.support_irq
    /\ irqDepth = 0
    /\ hpc = "idle"
    /\ done < MaxDone
    /\ hpc' = "run"
    /\ UNCHANGED <<bindVars, stored, compatible, pc, loc, mutex, irq_data_type, regs, done,
                   adc_data, temp_data, irqDepth, usage, rpm, nreq, nlock, wseq, prev, sig>>

\* sun4i_gpadc_data_irq_handler(): regmap_read() of the data register of the
\* pending type into its slot; complete() follows only when the read succeeded
HandlerRead(ok, v) ==
    /\ hpc = "run"
    /\ data.ths_irq_thread = "sun4i_gpadc_data_irq_handler"
    /\ IF ok
       THEN /\ hpc' = "post"
            /\ IF SlotFor(irq_data_type) = "adc_data"
               THEN adc_data' = v /\ UNCHANGED temp_data
               ELSE temp_data' = v /\ UNCHANGED adc_data
            /\ stored' = [stored EXCEPT ![SlotFor(irq_data_type)] = TRUE]
       ELSE /\ hpc' = "idle"
            /\ UNCHANGED <<adc_data, temp_data, stored>>
    /\ UNCHANGED <<bindVars, compatible, pc, loc, mutex, irq_data_type, regs, done,
                   irqDepth, usage, rpm, nreq, nlock, wseq, prev, sig>>

\* complete(&info->completion); return IRQ_HANDLED
HandlerComplete ==
    /\ hpc = "post"
    /\ done' = done + 1
    /\ sig' = TRUE
    /\ hpc' = "idle"
    /\ UNCHANGED <<bindVars, stored, compatible, pc, loc, mutex, irq_data_type, regs, adc_data,
                   temp_data, irqDepth, usage, rpm, nreq, nlock, wseq, prev>>

\* sunx8i_h3_irq_thread(): clear the status bit (the thermal zones are then
\* told to update, which is outside this driver)
H3IrqThread ==
    /\ hpc = "run"
    /\ data.ths_irq_thread = "sunx8i_h3_irq_thread"
    /\ regs' = [regs EXCEPT !["H3_STAT"] = data.ths_irq_clear]
    /\ hpc' = "idle"
    /\ UNCHANGED <<bindVars, stored, compatible, pc, loc, mutex, irq_data_type, done, adc_data,
                   temp_data, irqDepth, usage, rpm, nreq, nlock, wseq, prev, sig>>

\* ------------------------------------------------------------ runtime PM
\* the autosuspend delay expired with no user left: runtime_suspend
Suspend ==
    /\ usage = 0
    /\ rpm = "active"
    /\ regs' = sun4i_gpadc_runtime_suspend(data, regs)
    /\ rpm' = "suspended"
    /\ UNCHANGED <<bindVars, stored, compatible, pc, loc, mutex, irq_data_type, done, adc_data,
                   temp_data, irqDepth, hpc, usage, nreq, nlock, wseq, prev,
                   sig>>

\* ------------------------------------------------------- specifications
CallerStep(p) ==
    \/ \E ok \in BOOLEAN : WrFifoc(p, ok)
    \/ \E ok \in BOOLEAN : RdCtrl1(p, ok)
    \/ WrCtrl1Null(p)
    \/ \E ok \in BOOLEAN : WrCtrl1(p, ok)
    \/ \E ok \in BOOLEAN : IrqInit(p, ok)
    \/ EnableIrq(p)
    \/ WaitDone(p)
    \/ WaitTimeout(p)
    \/ RdVal(p)
    \/ Put(p)
    \/ DisableIrq(p)
    \/ \E tz \in BOOLEAN, g \in DataVals : Unlock(p, tz, g)
    \/ SGet(p)
    \/ \E ok \in BOOLEAN, v \in DataVals : SRead(p, ok, v)
    \/ \E tz \in BOOLEAN, g \in DataVals : SPut(p, tz, g)

HandlerStep ==
    \/ \E ok \in BOOLEAN, v \in DataVals : HandlerRead(ok, v)
    \/ HandlerComplete
    \/ H3IrqThread

\* The return of sun4i_gpadc_get_temp touches nothing but the caller's own
\* frame and so commutes with every other step: it is taken before any
\* other step.
InGetTemp == \E p \in Callers : pc[p] = "tz_ret"

Next ==
    \/ \E p \in Callers : TzReturn(p)
    \/ /\ ~InGetTemp
       /\ \/ \E p \in Callers : StartVoltage(p)
          \/ \E p \in Callers, s \in {0} : StartTemp(p, s)
          \/ \E p \in Callers, ch \in Channels : Lock(p, ch)
          \/ \E p \in Callers : CallerStep(p)
          \/ IrqFire
          \/ HandlerStep
          \/ Suspend

Spec == Init /\ [][Next]_vars

\* Every thread that can take a step is scheduled; the mutex hands over to
\* a waiter; the handler thread runs to its end; the completion timeout
\* expires.  Nothing obliges a caller to start a request, the hardware to
\* raise an interrupt or the autosuspend timer to expire.
Fairness ==
    /\ \A p \in Callers : WF_vars(CallerStep(p))
    /\ \A p \in Callers : SF_vars(\E ch \in Channels : Lock(p, ch))
    /\ WF_vars(HandlerStep)
    /\ \A p \in Callers : WF_vars(TzReturn(p))

FairSpec == Spec /\ Fairness

\* ------------------------------------- the resume sequences on their own
\* The runtime-PM core calls the variant's resume hook on a device whose
\* registers hold any values, and then once more.
ResumeInit ==
    /\ compatible \in DOMAIN sun4i_gpadc_of_id
    /\ regs \in [Registers -> RegVals]
    /\ pc = [p \in Callers |-> "idle"]
    /\ loc = [p \in Callers |-> IdleLoc]
    /\ mutex = 0
    /\ irq_data_type = SUN4I_GPADC_IRQ_FIFO_DATA
    /\ done = 0
    /\ adc_data = 0
    /\ temp_data = 0
    /\ irqDepth = ProbeIrqDepth(sun4i_gpadc_of_id[compatible])
    /\ hpc = "idle"
    /\ usage = 0
    /\ rpm = "suspended"
    /\ nreq = 0
    /\ nlock = 0
    /\ wseq = << >>
    /\ prev = NoPrev
    /\ sig = FALSE
    /\ stored = NoneStored
    /\ cell = [kind |-> "error", bytes |-> << >>]
    /\ calibration_data = <<0, 0>>
    /\ probe_ret = "bound"

\* sun4i_gpadc_runtime_resume() on the suspended device
ResumeOnce ==
    /\ rpm = "suspended"
    /\ regs' = sun4i_gpadc_runtime_resume(data, regs)
    /\ rpm' = "active"
    /\ UNCHANGED <<bindVars, stored, compatible, pc, loc, mutex, irq_data_type, done, adc_data,
                   temp_data, irqDepth, hpc, usage, nreq, nlock, wseq, prev,
                   sig>>

\* sun4i_gpadc_runtime_resume() once more, straight after
ResumeAgain ==
    /\ rpm = "active"
    /\ regs' = sun4i_gpadc_runtime_resume(data, regs)
    /\ UNCHANGED <<bindVars, stored, compatible, pc, loc, mutex, irq_data_type, done, adc_data,
                   temp_data, irqDepth, hpc, usage, rpm, nreq, nlock, wseq,
                   prev, sig>>

ResumeNext == ResumeOnce \/ ResumeAgain

ResumeSpec == ResumeInit /\ [][ResumeNext]_vars

\* ------------------------------------------ binding: the calibration cell
\* The cells a platform can offer: nvmem_cell_get() fails with -EPROBE_DEFER
\* ("defer") or another error ("error"), or the cell is there and
\* nvmem_cell_read() yields a blob ("blob") or fails ("read_error").
Cells ==
    {[kind |-> k, bytes |-> << >>] : k \in {"defer", "error", "read_error"}}
        \cup {[kind |-> "blob", bytes |-> b] :
                 b \in UNION {[1..n -> Bytes] : n \in 0..MaxCellLen}}

BindInit ==
    /\ compatible \in DOMAIN sun4i_gpadc_of_id
    /\ cell \in Cells
    /\ calibration_data = <<0, 0>>
    /\ probe_ret = "unbound"
    /\ pc = [p \in Callers |-> "idle"]
    /\ loc = [p \in Callers |-> IdleLoc]
    /\ mutex = 0
    /\ irq_data_type = SUN4I_GPADC_IRQ_FIFO_DATA
    /\ regs = [r \in Registers |-> 0]
    /\ done = 0
    /\ adc_data = 0
    /\ temp_data = 0
    /\ irqDepth = 0
    /\ hpc = "idle"
    /\ usage = 0
    /\ rpm = "suspended"
    /\ nreq = 0
    /\ nlock = 0
    /\ wseq = << >>
    /\ prev = NoPrev
    /\ sig = FALSE
    /\ stored = NoneStored

\* sun4i_gpadc_probe_dt(), the nvmem part, the rest of the probe succeeding.
\* After a failed nvmem_cell_read() cell_size is uninitialised: it holds
\* garbage, and when that is 8 (garbage8) the error pointer is dereferenced.
Probe(garbage8) ==
    /\ probe_ret = "unbound"
    /\ IF ~data.supports_nvmem
       THEN probe_ret' = "bound" /\ UNCHANGED calibration_data
       ELSE CASE cell.kind = "defer" ->
                   probe_ret' = "EPROBE_DEFER" /\ UNCHANGED calibration_data
              [] cell.kind = "error" ->
                   probe_ret' = "bound" /\ UNCHANGED calibration_data
              [] cell.kind = "read_error" ->
                   /\ probe_ret' = IF garbage8 THEN "oops" ELSE "bound"
                   /\ UNCHANGED calibration_data
              [] cell.kind = "blob" ->
                   /\ probe_ret' = "bound"
                   /\ IF cell_size_ok(Len(cell.bytes))
                      THEN calibration_data' = <<cell_data(cell.bytes, 0),
                                                 cell_data(cell.bytes, 1)>>
                      ELSE UNCHANGED calibration_data
    /\ irqDepth' = ProbeIrqDepth(data)
    /\ UNCHANGED <<cell, stored, compatible, pc, loc, mutex, irq_data_type, regs, done,
                   adc_data, temp_data, hpc, usage, rpm, nreq, nlock, wseq,
                   prev, sig>>

BindNext == \E garbage8 \in BOOLEAN : Probe(garbage8)

BindSpec == BindInit /\ [][BindNext]_vars

\* ================================================================ claims
\* positions between mutex_lock and mutex_unlock
InRead == {"wr_fifoc", "rd_ctrl1", "wr_ctrl1", "irq_init", "enable", "wait",
           "rd_val", "put", "disable", "unlock", "oops"}

\* positions past the err: label
Exit == {"put", "disable", "unlock"}

NoDuplicates(w) == \A i, j \in DOMAIN w : i # j => w[i] # w[j]

\* C1: with any callers of sun4i_gpadc_read running concurrently, at most one
\* request is between mutex_lock and mutex_unlock, it is the holder of the
\* mutex, and the register writes of one request are contiguous: no request
\* writes again once another request has written.
C1_Exclusive ==
    /\ \A p, q \in Callers : pc[p] \in InRead /\ pc[q] \in InRead => p = q
    /\ \A p \in Callers : pc[p] \in InRead => mutex = p
    /\ NoDuplicates(wseq)

\* C1 witness: a voltage and a temperature request overlap on a variant with
\* a voltage channel: one has issued its FIFO-control and control1 writes and
\* the other is blocked in mutex_lock.
C1_Witness ==
    /\ data.adc_channel
    /\ \E p, q \in Callers :
          /\ pc[p] = "irq_init"
          /\ pc[q] = "lock"
          /\ loc[p].irq # loc[q].irq
          /\ wseq = <<loc[p].rid>>

\* C2: a request that leaves the wait with no completion posted returns
\* -ETIMEDOUT and has not written the caller's output; and whenever a request
\* is about to release the mutex, on whatever path, the interrupt line is
\* disabled, and at the release no handler is running.
C2_TimeoutDisarmed ==
    /\ [][\A p \in Callers :
            pc[p] = "wait" /\ pc'[p] # "wait" /\ done = 0
               => /\ pc'[p] \in Exit
                  /\ loc'[p].ret = "ETIMEDOUT"
                  /\ loc'[p].val = NoVal]_vars
    /\ [](\A p \in Callers :
            /\ pc[p] \in Exit /\ loc[p].ret # "OK" => loc[p].val = NoVal
            /\ pc[p] = "unlock" /\ data.support_irq => irqDepth >= 1)
    /\ [][mutex # 0 /\ mutex' = 0 /\ data.support_irq
            => irqDepth >= 1 /\ hpc = "idle"]_vars

\* C2 witness: a timed-out request stands at mutex_unlock, the line disabled.
C2_Witness ==
    \E p \in Callers :
        /\ pc[p] = "unlock"
        /\ loc[p].ret = "ETIMEDOUT"
        /\ loc[p].val = NoVal
        /\ irqDepth >= 1

\* C3: a signal posted late in one request never resolves the next: while a
\* request prepares (from reinit_completion to enable_irq) no signal is
\* pending and no handler run is in flight, and a request whose wait
\* succeeded was signalled by complete() after its own enable_irq.
C3_NoStaleSignal ==
    \A p \in Callers :
        /\ /\ pc[p] \in {"wr_fifoc", "rd_ctrl1", "wr_ctrl1", "irq_init", "enable"}
           /\ data.ths_irq_thread = "sun4i_gpadc_data_irq_handler"
           => done = 0 /\ hpc = "idle"
        /\ pc[p] = "rd_val" \/ (pc[p] \in Exit /\ loc[p].ret = "OK") => sig

\* C3 witness: the second request to take the mutex has had its wait resolved.
C3_Witness ==
    \E p \in Callers : pc[p] = "rd_val" /\ loc[p].rid = 2 /\ sig

\* C4 (as claimed): when its data-register read fails, the handler still goes
\* on to post the completion.
C4_PostsOnReadFailure ==
    [][hpc = "run" /\ hpc' # "run"
         /\ data.ths_irq_thread = "sun4i_gpadc_data_irq_handler"
         => hpc' = "post"]_vars

\* positions after sun4i_prepare_for_irq returned 0
Prepared == {"enable", "wait", "rd_val"}

\* the preceding request went through its mode-select write and the device
\* has not been suspended since
FollowsCleanly(p) == prev.irq # "none" /\ prev.wrote /\ ~loc[p].resumed

\* C5 (as claimed): on a variant with a voltage channel, a request whose mode
\* differs from the mode of the request just before it has taken the 100 ms
\* delay by the time sun4i_prepare_for_irq returns, before enable_irq.
C5_ModeSwitchDelay ==
    \A p \in Callers :
        /\ data.adc_channel
        /\ pc[p] \in Prepared
        /\ FollowsCleanly(p)
        /\ prev.irq # loc[p].irq
        => loc[p].d100

\* C6 (as claimed): a request with the mode and channel of the request just
\* before it, the device not suspended in between, takes neither the 10 ms
\* nor the 100 ms delay.
C6_RepeatNoDelay ==
    \A p \in Callers :
        /\ data.adc_channel
        /\ pc[p] \in Prepared
        /\ FollowsCleanly(p)
        /\ prev.irq = loc[p].irq
        /\ prev.channel = loc[p].channel
        => ~loc[p].d10 /\ ~loc[p].d100

\* a voltage request past its control1 write
VoltagePastCtrl1(p) ==
    /\ loc[p].irq = SUN4I_GPADC_IRQ_FIFO_DATA
    /\ pc[p] \in {"irq_init"} \cup Prepared

\* C7 (as claimed, second half): a voltage request on another channel than
\* the voltage request just before it, which wrote control1, always takes
\* the 10 ms delay.
C7_OtherChannelAlwaysDelays ==
    \A p \in Callers :
        /\ VoltagePastCtrl1(p)
        /\ prev.irq = SUN4I_GPADC_IRQ_FIFO_DATA
        /\ prev.wrote
        /\ prev.channel # loc[p].channel
        => loc[p].d10

\* C7 (amended): for a voltage request the value compared is control1 as read
\* before the mode-select write, and the 10 ms delay is taken exactly when
\* that value under the variant's channel mask differs from the encoding of
\* the requested channel; a voltage request on another channel than the
\* voltage request just before it takes the delay when that request's
\* control1 write succeeded and the device was not suspended in between.
C7_ChannelDelay ==
    \A p \in Callers :
        /\ pc[p] = "wr_ctrl1" => loc[p].reg = regs["CTRL1"]
        /\ VoltagePastCtrl1(p) =>
             /\ loc[p].d10 <=> (And(loc[p].reg, data.adc_chan_mask)
                                  # adc_chan_select(data, loc[p].channel))
             /\ /\ FollowsCleanly(p)
                /\ prev.irq = SUN4I_GPADC_IRQ_FIFO_DATA
                /\ prev.channel # loc[p].channel
                => loc[p].d10

\* C7 witness: a voltage request on another channel than the voltage request
\* just before it has taken the 10 ms delay.
C7_Witness ==
    \E p \in Callers :
        /\ VoltagePastCtrl1(p)
        /\ FollowsCleanly(p)
        /\ prev.irq = SUN4I_GPADC_IRQ_FIFO_DATA
        /\ prev.channel # loc[p].channel
        /\ loc[p].d10

\* positions at which a caller holds a runtime-PM usage count
Claimed == {"wr_fifoc", "rd_ctrl1", "wr_ctrl1", "irq_init", "enable", "wait",
            "rd_val", "put", "oops", "s_read", "s_put"}

\* positions at which a caller is about to access a register
Accessing == {"wr_fifoc", "rd_ctrl1", "wr_ctrl1", "irq_init", "s_read"}

\* C8: a request holds exactly one usage count from its pm_runtime_get_sync
\* until its pm_runtime_put_autosuspend, the device is powered whenever a
\* request accesses a register, the count is dropped on every path past the
\* err: label and on the synchronous path, and with no request running the
\* gets and puts have balanced.
C8_PowerBalanced ==
    /\ usage = Cardinality({p \in Callers : pc[p] \in Claimed})
    /\ \A p \in Callers : pc[p] \in Accessing => rpm = "active" /\ usage >= 1
    /\ \A p \in Callers : pc[p] \in {"disable", "unlock"} => mutex = p

\* C8 witness: a request whose preparation failed on a register write has
\* dropped its usage count; it was the second request to run.
C8_Witness ==
    \E p \in Callers :
        /\ pc[p] = "disable"
        /\ loc[p].ret = "EIO"
        /\ loc[p].rid = 2
        /\ usage = 0

\* C9 (as claimed): every call eventually returns, so every caller, blocked
\* on the mutex or holding it, is eventually back outside the call.
C9_EveryCallReturns ==
    \A p \in Callers : (pc[p] # "idle") ~> (pc[p] = "idle")

\* C10 (as claimed): on a variant without a voltage channel a voltage request
\* never gets past the first register write of sun4i_prepare_for_irq.
C10_RejectedBeforeWrite ==
    \A p \in Callers :
        ~data.adc_channel /\ loc[p].irq = SUN4I_GPADC_IRQ_FIFO_DATA
            => pc[p] \notin {"rd_ctrl1", "wr_ctrl1", "oops"}

\* C11 (as claimed): a request on whose behalf a register access failed never
\* reports success; here for the synchronous temperature path, where
\* loc[p].w1 records whether the regmap_read of the data register succeeded.
C11_FailureReported ==
    \A p \in Callers :
        pc[p] = "s_put" /\ ~loc[p].w1 => loc[p].ret # "OK"

C13_ZoneReadFailure ==
    \A p \in Callers :
        pc[p] = "tz_ret" /\ ~data.adc_channel /\ ~loc[p].w1
            => loc[p].ret # "OK" /\ ~loc[p].tw

\* C14: after the probe has run on a variant with supports_nvmem: a blob of
\* exactly 8 bytes is stored as calibration_data[0] (bytes 0..3) and
\* calibration_data[1] (bytes 4..7); a blob of any other length leaves the
\* calibration words unset and the device bound; a cell that cannot be got
\* aborts the probe with -EPROBE_DEFER exactly when that is the error, and
\* otherwise leaves the device bound with the words unset.
C14_CalibrationBlob ==
    probe_ret # "unbound" /\ data.supports_nvmem =>
        /\ cell.kind = "blob" /\ Len(cell.bytes) = 8 =>
             /\ probe_ret = "bound"
             /\ LET b == cell.bytes
                IN  calibration_data =
                      << b[1] + 256 * (b[2] + 256 * (b[3] + 256 * b[4])),
                         b[5] + 256 * (b[6] + 256 * (b[7] + 256 * b[8])) >>
        /\ cell.kind = "blob" /\ Len(cell.bytes) # 8 =>
             probe_ret = "bound" /\ calibration_data = <<0, 0>>
        /\ cell.kind = "error" =>
             probe_ret = "bound" /\ calibration_data = <<0, 0>>
        /\ cell.kind = "defer" =>
             probe_ret = "EPROBE_DEFER" /\ calibration_data = <<0, 0>>
        /\ probe_ret = "EPROBE_DEFER" => cell.kind = "defer"

\* C14 witness: the H3 probe has stored an 8-byte blob whose two words differ.
C14_Witness ==
    /\ probe_ret = "bound"
    /\ data.supports_nvmem
    /\ cell.kind = "blob"
    /\ Len(cell.bytes) = 8
    /\ calibration_data = <<1, 256>>

\* C15 (as claimed): once the lock holder has observed the completion and
\* until it has read the slot, the handler writes no value slot.
C15_NoWriteBeforeRead ==
    [][(\E p \in Callers : pc[p] = "rd_val")
          => ~(/\ hpc = "run"
               /\ hpc' = "post"
               /\ data.ths_irq_thread = "sun4i_gpadc_data_irq_handler")]_vars

\* C16 (as claimed): the completion never holds more than one unconsumed
\* signal.
C16_AtMostOneSignal == done <= 1

\* C17: a request that leaves its wait with success reads the slot of its
\* own type, and that slot was written by the handler during this very
\* request, after its enable_irq: it is never a slot left as an earlier
\* request filled it, and the other type's slot is never the one read.
C17_FreshMatchingSlot ==
    \A p \in Callers :
        LET own == IF loc[p].irq = SUN4I_GPADC_IRQ_FIFO_DATA
                   THEN "adc_data" ELSE "temp_data"
        IN  /\ pc[p] = "rd_val" => stored[own] /\ sig
            /\ pc[p] \in Exit /\ loc[p].ret = "OK" =>
                 /\ loc[p].from = own
                 /\ stored[own]
                 /\ loc[p].val \in DataVals

\* C17 witness: the second request to take the mutex, a temperature request
\* after a voltage request, has read temp_data, filled during this request.
C17_Witness ==
    \E p \in Callers :
        /\ pc[p] = "put"
        /\ loc[p].ret = "OK"
        /\ loc[p].rid = 2
        /\ loc[p].from = "temp_data"
        /\ stored = [adc_data |-> FALSE, temp_data |-> TRUE]
        /\ prev.irq = SUN4I_GPADC_IRQ_FIFO_DATA

\* C18 (as claimed): every call performs as many enable_irq as disable_irq,
\* so with no call holding the mutex the disable depth of the interrupt is
\* what the probe left it at.
C18_DepthRestored == mutex = 0 => irqDepth = ProbeIrqDepth(data)

\* C19 (as claimed): the handler never reads a data register at a moment when
\* the request has already dropped its power claim.
C19_HandlerUnderClaim ==
    [][/\ hpc = "run"
       /\ hpc' # "run"
       /\ data.ths_irq_thread = "sun4i_gpadc_data_irq_handler"
       => usage >= 1]_vars

\* C20 (as claimed): on every exit path the power-down request comes after
\* the interrupt is disarmed and the lock released, so a call that stands at
\* disable_irq or at mutex_unlock still holds its power claim.
C20_PowerDownLast ==
    \A p \in Callers : pc[p] \in {"disable", "unlock"} => usage >= 1

\* the interrupt line can reach the handler; the handler thread is running
Armed == data.support_irq /\ irqDepth = 0

HandlerRunning == hpc # "idle"

\* irq_data_type is the mode of the request that holds the mutex
ModeOfHolder == mutex # 0 /\ irq_data_type = loc[mutex].irq

\* C21 (as claimed): on every variant, whenever the interrupt is enabled or
\* the handler is running, irq_data_type is the mode of the request holding
\* the mutex, and no step taken from such a state changes irq_data_type.
C21_ModeStableAllVariants ==
    /\ [](Armed \/ HandlerRunning => ModeOfHolder)
    /\ [][Armed \/ HandlerRunning => irq_data_type' = irq_data_type]_vars

\* C21 (amended): on the variants with a voltage channel, whose interrupt
\* serves the measurement handshake, whenever the interrupt is enabled or
\* the handler is running, irq_data_type is the mode of the request holding
\* the mutex, and no step taken from such a state changes irq_data_type.
C21_ModeStable ==
    /\ [](data.adc_channel /\ (Armed \/ HandlerRunning) => ModeOfHolder)
    /\ [][data.adc_channel /\ (Armed \/ HandlerRunning)
          => irq_data_type' = irq_data_type]_vars

\* the handler runs for the second request, a temperature request that
\* followed a voltage request and so changed irq_data_type when it locked
C21_Witness ==
    /\ data.adc_channel
    /\ Armed
    /\ hpc = "run"
    /\ mutex # 0
    /\ loc[mutex].rid = 2
    /\ irq_data_type = SUN4I_GPADC_IRQ_TEMP_DATA
    /\ prev.irq = SUN4I_GPADC_IRQ_FIFO_DATA

\* the value sun4i_prepare_for_irq wrote to INT_FIFOC first
FifocFlush ==
    Or(SUN4I_GPADC_INT_FIFOC_TP_FIFO_TRIG_LEVEL(1),
       SUN4I_GPADC_INT_FIFOC_TP_FIFO_FLUSH)

\* C22 (as claimed): when a request begins to wait, on a variant with an
\* interrupt and with the write of sun4i_gpadc_irq_init landed, INT_FIFOC
\* enables the FIFO data interrupt with trigger level 1 for a voltage request
\* and the temperature interrupt for a temperature request.
C22_MaskForMode ==
    \A p \in Callers :
        /\ pc[p] = "wait"
        /\ data.support_irq
        /\ regs["INT_FIFOC"] # FifocFlush
        => IF loc[p].irq = SUN4I_GPADC_IRQ_FIFO_DATA
           THEN /\ And(regs["INT_FIFOC"],
                       SUN4I_GPADC_INT_FIFOC_TP_DATA_IRQ_EN) # 0
                /\ And(regs["INT_FIFOC"], GENMASK(12, 8))
                     = SUN4I_GPADC_INT_FIFOC_TP_FIFO_TRIG_LEVEL(1)
           ELSE And(regs["INT_FIFOC"],
                    SUN4I_GPADC_INT_FIFOC_TEMP_IRQ_EN) # 0

\* the register file of a device that was never touched
ColdRegs == [r \in Registers |-> 0]

\* the registers the claim names: interrupt enable and acquisition enable
SuspendZeroed(d, r) ==
    IF d.ths = "h3"
    THEN r["H3_INTC"] = 0 /\ r["H3_CTRL2"] = 0
    ELSE r["INT_FIFOC"] = 0 /\ r["CTRL1"] = 0 /\ r["TPR"] = 0

\* C23 (as claimed): a suspended device has its interrupt-enable and
\* acquisition-enable registers at zero, and every resume of a suspended
\* device, whatever was measured before, leaves the register file that a
\* resume of the untouched device leaves.
C23_ResumeAsFromCold ==
    /\ [](rpm = "suspended" => SuspendZeroed(data, regs))
    /\ [][rpm = "suspended" /\ rpm' = "active"
          => regs' = sun4i_gpadc_runtime_resume(data, ColdRegs)]_vars

\* the steps of the synchronous path of sun4i_gpadc_temp_read
Sync == {"s_get", "s_read", "s_put"}

\* C24: a temperature read takes the synchronous path exactly on the
\* variants without a voltage channel; there its register read is of
\* temp_data_base + 4 * sensor, it never holds the mutex, and none of its
\* steps changes the mutex, irq_data_type, the interrupt's disable depth or
\* the completion; on a variant with a voltage channel a temperature read
\* goes through the locked handshake, with channel 0.
C24_SyncReadFrame ==
    /\ [](\A p \in Callers :
            /\ pc[p] \in Sync
               => /\ ~data.adc_channel
                  /\ loc[p].irq = SUN4I_GPADC_IRQ_TEMP_DATA
                  /\ mutex # p
            /\ pc[p] = "s_put"
               => loc[p].addr = [base |-> data.temp_data_base,
                                 off  |-> 4 * loc[p].sensor]
            /\ loc[p].irq = SUN4I_GPADC_IRQ_TEMP_DATA
                  /\ pc[p] \in {"lock"} \cup InRead \cup Exit
               => /\ data.adc_channel
                  /\ loc[p].channel = 0
                  /\ pc[p] # "lock" => mutex = p)
    /\ [][\A p \in Callers :
            pc[p] \in Sync /\ pc'[p] # pc[p]
            => UNCHANGED <<mutex, irq_data_type, irqDepth, done>>]_vars

\* on H3 a synchronous read has read THS_TDATA0 while another request holds
\* the mutex and the interrupt thread is running
C24_Witness ==
    \E p \in Callers :
        /\ pc[p] = "s_put"
        /\ loc[p].w1
        /\ loc[p].addr = [base |-> "H3_TDATA0", off |-> 0]
        /\ mutex \in Callers \ {p}
        /\ hpc = "run"

====
